---- MODULE Spec2Model ----
(***************************************************************************)
(* Metrics layer of the caddy rate-limit module (src/metrics.go).          *)
(*                                                                         *)
(* The process-wide state is the Once guard, the globalMetrics pointer and *)
(* the five instruments it points to; goroutines call registerMetrics and  *)
(* the seven recording methods of a metricsCollector concurrently.         *)
(***************************************************************************)
EXTENDS Integers, Sequences, FiniteSets, TLC

(* ------------------------------ bounds --------------------------------- *)

\* recording calls made over one run
MaxCalls == 2

(* --------------------------- input domains ----------------------------- *)

Threads == {"g1", "g2"}

\* Registerers a caller may hand to registerMetrics; "r2" already holds a
\* collector named like the module's requests counter.
Registries == {"r1", "r2"}

\* zone names; label values are not validated, so a zone may be called "true"
Zones == {"z", "true"}

\* key values; the key may be empty
Keys == {"", "k"}

\* key counts handed to updateKeysCount
Counts == {3, 5}

\* zone configurations <<max_events, window>>, the window a time.Duration in
\* milliseconds: 10s, and 1m30s
ZoneConfigs == {<<2, 10000>>, <<10, 10000>>, <<2, 90000>>}

\* decision times, time.Duration values in milliseconds
ProcessTimes == {250}

\* the metricsCollector objects of the process
Collectors == {1}

Nil == 0

VARIABLES
    metricsOnce,    \* sync.Once: [done, m] (done flag, mutex held)
    globalMetrics,  \* pointer to the instrument set, Nil or 1..allocated
    allocated,      \* rateLimitMetrics objects built by initializeMetrics
    registry,       \* per Registerer, the fully-qualified names it holds
    declinedTotal,  \* CounterVec {zone,key}: label tuple -> value
    requestsTotal,  \* CounterVec {zone,key}
    processTime,    \* HistogramVec {zone,key}: label tuple -> [sum, counts]
    keysTotal,      \* GaugeVec {zone}
    config,         \* CounterVec {zone,max_events,window}
    collectors,     \* the metricsCollector objects: [enabled, IncludeKey]
    pc,             \* per goroutine, where it is and the call's arguments
    returned,       \* the error values registerMetrics has returned so far
    calls           \* recording calls made so far

vecs == <<declinedTotal, requestsTotal, processTime, keysTotal, config>>

vars == <<metricsOnce, globalMetrics, allocated, registry, declinedTotal,
          requestsTotal, processTime, keysTotal, config, collectors, pc,
          returned,
          calls>>

(* ------------------------------ naming --------------------------------- *)

ns == "caddy"

sub == "rate_limit"

\* prometheus.BuildFQName(namespace, subsystem, name)
FQName(name) == ns \o "_" \o sub \o "_" \o name

\* the instruments in the order the struct literal of initializeMetrics
\* evaluates them
InstrumentNames ==
    << FQName("declined_requests_total"), FQName("requests_total"),
       FQName("process_time_seconds"), FQName("keys_total"), FQName("config") >>

\* histogram bucket upper bounds, in milliseconds
Buckets == <<1, 5, 10, 25, 50, 100, 250, 500, 1000>>

(* --------------------------- label formatting -------------------------- *)

Digit(d) ==
    CASE d = 0 -> "0" [] d = 1 -> "1" [] d = 2 -> "2" [] d = 3 -> "3"
      [] d = 4 -> "4" [] d = 5 -> "5" [] d = 6 -> "6" [] d = 7 -> "7"
      [] d = 8 -> "8" [] d = 9 -> "9"

RECURSIVE fmtInt(_)
\* decimal digits of v >= 0
fmtInt(v) == IF v < 10 THEN Digit(v) ELSE fmtInt(v \div 10) \o Digit(v % 10)

\* strconv.Itoa
Itoa(n) == IF n < 0 THEN "-" \o fmtInt(-n) ELSE fmtInt(n)

RECURSIVE fmtFracDigits(_, _)
\* the digits of v over prec places, trailing zeros dropped
fmtFracDigits(v, prec) ==
    IF prec = 0 \/ v = 0 THEN ""
    ELSE LET scale == 10 ^ (prec - 1)
         IN  Digit(v \div scale) \o fmtFracDigits(v % scale, prec - 1)

\* time.fmtFrac: the fraction v/10^prec, without a point when it is zero
fmtFrac(v, prec) == IF v = 0 THEN "" ELSE "." \o fmtFracDigits(v, prec)

\* time.Duration.String for u >= 0 milliseconds
DurationAbs(u) ==
    IF u = 0 THEN "0s"
    ELSE IF u < 1000 THEN fmtInt(u) \o "ms"
    ELSE LET secs == u \div 1000
             mins == secs \div 60
             hours == mins \div 60
             s == fmtInt(secs % 60) \o fmtFrac(u % 1000, 3) \o "s"
             m == IF mins > 0 THEN fmtInt(mins % 60) \o "m" ELSE ""
             h == IF hours > 0 THEN fmtInt(hours) \o "h" ELSE ""
         IN  h \o m \o s

\* time.Duration.String, the duration given in milliseconds
DurationString(d) == IF d < 0 THEN "-" \o DurationAbs(-d) ELSE DurationAbs(d)

\* the label of the zone-classification series
hasZoneStr(hasZone) == IF hasZone THEN "true" ELSE "false"

(* ------------------------------ instruments ---------------------------- *)

\* the value of a counter or gauge series; a series not yet created reads 0
Val(vec, lbl) == IF lbl \in DOMAIN vec THEN vec[lbl] ELSE 0

\* CounterVec.WithLabelValues(lbl...).Inc()
Inc(vec, lbl) ==
    IF lbl \in DOMAIN vec THEN [vec EXCEPT ![lbl] = @ + 1] ELSE vec @@ (lbl :> 1)

\* GaugeVec.WithLabelValues(lbl...).Add(float64(v)) in place of Set
GaugeAdd(vec, lbl, v) ==
    IF lbl \in DOMAIN vec THEN [vec EXCEPT ![lbl] = @ + v] ELSE vec @@ (lbl :> v)

\* GaugeVec.WithLabelValues(lbl...).Set(float64(v))
GaugeSet(vec, lbl, v) ==
    IF lbl \in DOMAIN vec THEN [vec EXCEPT ![lbl] = v] ELSE vec @@ (lbl :> v)

\* the bucket an observation of d milliseconds falls in (10: +Inf)
BucketOf(d) ==
    IF \E i \in 1..Len(Buckets) : d <= Buckets[i]
    THEN CHOOSE i \in 1..Len(Buckets) :
            /\ d <= Buckets[i]
            /\ \A j \in 1..(i - 1) : d > Buckets[j]
    ELSE Len(Buckets) + 1

NoObservations == [sum |-> 0, counts |-> [i \in 1..(Len(Buckets) + 1) |-> 0]]

\* HistogramVec.WithLabelValues(lbl...).Observe(d.Seconds())
Observe(vec, lbl, d) ==
    LET old == IF lbl \in DOMAIN vec THEN vec[lbl] ELSE NoObservations
        new == [sum |-> old.sum + d,
                counts |-> [old.counts EXCEPT ![BucketOf(d)] = @ + 1]]
    IN  IF lbl \in DOMAIN vec THEN [vec EXCEPT ![lbl] = new] ELSE vec @@ (lbl :> new)

\* a vector without series
EmptyVec == <<>>

(* ------------------------------ goroutines ----------------------------- *)

Idle == [at |-> "idle", reg |-> "", op |-> "", mc |-> 0, zone |-> "",
         key |-> "", dur |-> 0]

InRegister == {"doSlow", "f", "deferOk", "deferPanic"}

\* newMetricsCollector(globalOpts): enabled, and reading the IncludeKey policy
\* of the RateLimitApp it was given
newMetricsCollector(includeKey) == [enabled |-> TRUE, IncludeKey |-> includeKey]

(* --------------------------------- Init -------------------------------- *)

Init ==
    /\ metricsOnce = [done |-> FALSE, m |-> FALSE]
    /\ globalMetrics = Nil
    /\ allocated = 0
    /\ registry = [r \in Registries |->
                     IF r = "r2" THEN {FQName("requests_total")} ELSE {}]
    /\ declinedTotal = EmptyVec
    /\ requestsTotal = EmptyVec
    /\ processTime = EmptyVec
    /\ keysTotal = EmptyVec
    /\ config = EmptyVec
    /\ \E includeKey \in BOOLEAN :
          collectors = [c \in Collectors |-> newMetricsCollector(includeKey)]
    /\ pc = [t \in Threads |-> Idle]
    /\ returned = {}
    /\ calls = 0

(* --------------------------- Registry Bootstrap ------------------------ *)

RECURSIVE RegisterFrom(_, _)
\* promauto registers the instruments one after the other with MustRegister;
\* the first name the registry already holds panics and ends the sequence
RegisterFrom(held, i) ==
    IF i > Len(InstrumentNames) THEN [held |-> held, ok |-> TRUE]
    ELSE IF InstrumentNames[i] \in held THEN [held |-> held, ok |-> FALSE]
    ELSE RegisterFrom(held \cup {InstrumentNames[i]}, i + 1)

\* initializeMetrics(registry): what the registry holds afterwards and whether
\* an instrument set was returned
initializeMetrics(r) == RegisterFrom(registry[r], 1)

\* the err variable of registerMetrics, declared and never assigned
err == "nil"

\* registerMetrics(reg) up to the fast path of metricsOnce.Do: done already
\* set returns err, which is nil
registerMetrics(t, r) ==
    /\ pc[t].at = "idle"
    /\ IF metricsOnce.done
       THEN /\ returned' = returned \cup {err}
            /\ pc' = pc
       ELSE /\ pc' = [pc EXCEPT ![t] = [Idle EXCEPT !.at = "doSlow", !.reg = r]]
            /\ UNCHANGED returned
    /\ UNCHANGED <<metricsOnce, globalMetrics, allocated, registry, vecs,
                   collectors, calls>>

\* doSlow taking the mutex without looking at done again
doSlow_NoRecheck(t) ==
    /\ pc[t].at = "doSlow"
    /\ ~metricsOnce.m
    /\ pc' = [pc EXCEPT ![t].at = "f"]
    /\ metricsOnce' = [metricsOnce EXCEPT !.m = TRUE]
    /\ UNCHANGED <<globalMetrics, allocated, registry, vecs, collectors,
                   returned, calls>>

\* Once.doSlow: take the mutex, look at done again
doSlow(t) ==
    /\ pc[t].at = "doSlow"
    /\ ~metricsOnce.m
    /\ IF metricsOnce.done
       THEN /\ pc' = [pc EXCEPT ![t] = Idle]
            /\ returned' = returned \cup {err}
            /\ UNCHANGED metricsOnce
       ELSE /\ pc' = [pc EXCEPT ![t].at = "f"]
            /\ metricsOnce' = [metricsOnce EXCEPT !.m = TRUE]
            /\ UNCHANGED returned
    /\ UNCHANGED <<globalMetrics, allocated, registry, vecs, collectors,
                   calls>>

\* the function handed to Do: globalMetrics = initializeMetrics(reg)
onceBody(t) ==
    /\ pc[t].at = "f"
    /\ LET res == initializeMetrics(pc[t].reg)
       IN  /\ registry' = [registry EXCEPT ![pc[t].reg] = res.held]
           /\ IF res.ok
              THEN /\ allocated' = allocated + 1
                   /\ globalMetrics' = allocated + 1
                   /\ declinedTotal' = EmptyVec
                   /\ requestsTotal' = EmptyVec
                   /\ processTime' = EmptyVec
                   /\ keysTotal' = EmptyVec
                   /\ config' = EmptyVec
                   /\ pc' = [pc EXCEPT ![t].at = "deferOk"]
              ELSE /\ pc' = [pc EXCEPT ![t].at = "deferPanic"]
                   /\ UNCHANGED <<allocated, globalMetrics, vecs>>
    /\ UNCHANGED <<metricsOnce, collectors, returned, calls>>

\* a guard that stores done only when the function returned normally
onceDefer_DoneOnSuccess(t) ==
    /\ pc[t].at \in {"deferOk", "deferPanic"}
    /\ IF pc[t].at = "deferOk"
       THEN /\ metricsOnce' = [done |-> TRUE, m |-> FALSE]
            /\ pc' = [pc EXCEPT ![t] = Idle]
            /\ returned' = returned \cup {err}
       ELSE /\ metricsOnce' = [metricsOnce EXCEPT !.m = FALSE]
            /\ pc' = [pc EXCEPT ![t] = [Idle EXCEPT !.at = "panicked"]]
            /\ UNCHANGED returned
    /\ UNCHANGED <<globalMetrics, allocated, registry, vecs, collectors,
                   calls>>

\* the deferred calls of doSlow: done is stored and the mutex released, also
\* when the function panicked; the panic then leaves registerMetrics
onceDefer(t) ==
    /\ pc[t].at \in {"deferOk", "deferPanic"}
    /\ metricsOnce' = [done |-> TRUE, m |-> FALSE]
    /\ IF pc[t].at = "deferOk"
       THEN /\ pc' = [pc EXCEPT ![t] = Idle]
            /\ returned' = returned \cup {err}
       ELSE /\ pc' = [pc EXCEPT ![t] = [Idle EXCEPT !.at = "panicked"]]
            /\ UNCHANGED returned
    /\ UNCHANGED <<globalMetrics, allocated, registry, vecs, collectors,
                   calls>>

(* ---------------------------- Metrics Collector ------------------------- *)

\* the enabled field cleared (a collector switched off, as tests do)
disable(c) ==
    /\ collectors[c].enabled
    /\ collectors' = [collectors EXCEPT ![c].enabled = FALSE]
    /\ UNCHANGED <<metricsOnce, globalMetrics, allocated, registry, vecs, pc,
                   returned, calls>>

\* an early return that looks at globalMetrics only
skip_IgnoresEnabled(c) == globalMetrics = Nil

\* the early return every recording method starts with; the read of
\* globalMetrics is not ordered with the store inside metricsOnce.Do, so a call
\* overlapping the initialization sees nil or the new set, as the steps
\* interleave
skip(c) == ~collectors[c].enabled \/ globalMetrics = Nil

\* a goroutine may call a method of collector c
MayCall(t, c) ==
    /\ pc[t].at = "idle"
    /\ calls < MaxCalls

\* the goroutine is between the aggregate write and the per-key branch
PerKeyPending(t, c, op, zone, key, dur) ==
    [pc EXCEPT ![t] = [Idle EXCEPT !.at = "perKey", !.op = op, !.mc = c,
                                   !.zone = zone, !.key = key, !.dur = dur]]

\* recordRequest(hasZone)
recordRequest(t, c, hasZone) ==
    /\ MayCall(t, c)
    /\ calls' = calls + 1
    /\ IF skip(c)
       THEN UNCHANGED requestsTotal
       ELSE requestsTotal' = Inc(requestsTotal, <<hasZoneStr(hasZone), "">>)
    /\ UNCHANGED <<metricsOnce, globalMetrics, allocated, registry,
                   declinedTotal, processTime, keysTotal, config, collectors,
                   pc, returned>>

\* recordRequestPerKey writing the per-key series where the aggregate belongs
recordRequestPerKey_KeyFirst(t, c, zone, key) ==
    /\ MayCall(t, c)
    /\ calls' = calls + 1
    /\ IF skip(c)
       THEN UNCHANGED <<requestsTotal, pc>>
       ELSE /\ requestsTotal' = Inc(requestsTotal, <<zone, key>>)
            /\ pc' = PerKeyPending(t, c, "recordRequestPerKey", zone, key, 0)
    /\ UNCHANGED <<metricsOnce, globalMetrics, allocated, registry,
                   declinedTotal, processTime, keysTotal, config, collectors,
                   returned>>

\* recordRequestPerKey(zone, key) up to the zone-level aggregate write
recordRequestPerKey(t, c, zone, key) ==
    /\ MayCall(t, c)
    /\ calls' = calls + 1
    /\ IF skip(c)
       THEN UNCHANGED <<requestsTotal, pc>>
       ELSE /\ requestsTotal' = Inc(requestsTotal, <<zone, "">>)
            /\ pc' = PerKeyPending(t, c, "recordRequestPerKey", zone, key, 0)
    /\ UNCHANGED <<metricsOnce, globalMetrics, allocated, registry,
                   declinedTotal, processTime, keysTotal, config, collectors,
                   returned>>

\* recordRequestPerKey: the per-key write under the IncludeKey policy
recordRequestPerKeyDetail(t) ==
    /\ pc[t].at = "perKey"
    /\ pc[t].op = "recordRequestPerKey"
    /\ IF collectors[pc[t].mc].IncludeKey
       THEN requestsTotal' = Inc(requestsTotal, <<pc[t].zone, pc[t].key>>)
       ELSE UNCHANGED requestsTotal
    /\ pc' = [pc EXCEPT ![t] = Idle]
    /\ UNCHANGED <<metricsOnce, globalMetrics, allocated, registry,
                   declinedTotal, processTime, keysTotal, config, collectors,
                   returned, calls>>

\* recordDeclinedRequest(zone, key) up to the zone-level aggregate write
recordDeclinedRequest(t, c, zone, key) ==
    /\ MayCall(t, c)
    /\ calls' = calls + 1
    /\ IF skip(c)
       THEN UNCHANGED <<declinedTotal, pc>>
       ELSE /\ declinedTotal' = Inc(declinedTotal, <<zone, "">>)
            /\ pc' = PerKeyPending(t, c, "recordDeclinedRequest", zone, key, 0)
    /\ UNCHANGED <<metricsOnce, globalMetrics, allocated, registry,
                   requestsTotal, processTime, keysTotal, config, collectors,
                   returned>>

\* recordDeclinedRequest writing the per-key series whatever the policy
recordDeclinedRequestDetail_Always(t) ==
    /\ pc[t].at = "perKey"
    /\ pc[t].op = "recordDeclinedRequest"
    /\ declinedTotal' = Inc(declinedTotal, <<pc[t].zone, pc[t].key>>)
    /\ pc' = [pc EXCEPT ![t] = Idle]
    /\ UNCHANGED <<metricsOnce, globalMetrics, allocated, registry,
                   requestsTotal, processTime, keysTotal, config, collectors,
                   returned, calls>>

\* recordDeclinedRequest: the per-key write under the IncludeKey policy
recordDeclinedRequestDetail(t) ==
    /\ pc[t].at = "perKey"
    /\ pc[t].op = "recordDeclinedRequest"
    /\ IF collectors[pc[t].mc].IncludeKey
       THEN declinedTotal' = Inc(declinedTotal, <<pc[t].zone, pc[t].key>>)
       ELSE UNCHANGED declinedTotal
    /\ pc' = [pc EXCEPT ![t] = Idle]
    /\ UNCHANGED <<metricsOnce, globalMetrics, allocated, registry,
                   requestsTotal, processTime, keysTotal, config, collectors,
                   returned, calls>>

\* recordProcessTime(duration, hasZone)
recordProcessTime(t, c, duration, hasZone) ==
    /\ MayCall(t, c)
    /\ calls' = calls + 1
    /\ IF skip(c)
       THEN UNCHANGED processTime
       ELSE processTime' =
                Observe(processTime, <<hasZoneStr(hasZone), "">>, duration)
    /\ UNCHANGED <<metricsOnce, globalMetrics, allocated, registry,
                   declinedTotal, requestsTotal, keysTotal, config, collectors,
                   pc, returned>>

\* recordProcessTimePerKey(duration, zone, key) up to the aggregate observation
recordProcessTimePerKey(t, c, duration, zone, key) ==
    /\ MayCall(t, c)
    /\ calls' = calls + 1
    /\ IF skip(c)
       THEN UNCHANGED <<processTime, pc>>
       ELSE /\ processTime' = Observe(processTime, <<zone, "">>, duration)
            /\ pc' = PerKeyPending(t, c, "recordProcessTimePerKey", zone, key,
                                   duration)
    /\ UNCHANGED <<metricsOnce, globalMetrics, allocated, registry,
                   declinedTotal, requestsTotal, keysTotal, config, collectors,
                   returned>>

\* recordProcessTimePerKey: the per-key observation under the IncludeKey policy
recordProcessTimePerKeyDetail(t) ==
    /\ pc[t].at = "perKey"
    /\ pc[t].op = "recordProcessTimePerKey"
    /\ IF collectors[pc[t].mc].IncludeKey
       THEN processTime' =
                Observe(processTime, <<pc[t].zone, pc[t].key>>, pc[t].dur)
       ELSE UNCHANGED processTime
    /\ pc' = [pc EXCEPT ![t] = Idle]
    /\ UNCHANGED <<metricsOnce, globalMetrics, allocated, registry,
                   declinedTotal, requestsTotal, keysTotal, config, collectors,
                   returned, calls>>

\* updateKeysCount(zone, count)
updateKeysCount(t, c, zone, count) ==
    /\ MayCall(t, c)
    /\ calls' = calls + 1
    /\ IF skip(c)
       THEN UNCHANGED keysTotal
       ELSE keysTotal' = GaugeSet(keysTotal, <<zone>>, count)
    /\ UNCHANGED <<metricsOnce, globalMetrics, allocated, registry,
                   declinedTotal, requestsTotal, processTime, config,
                   collectors, pc, returned>>

\* label values that leave the window out
configLabels_NoWindow(zone, maxEvents, window) ==
    <<zone, Itoa(maxEvents), Itoa(maxEvents)>>

\* the label values recordConfig gives a zone's configuration
configLabels(zone, maxEvents, window) ==
    <<zone, Itoa(maxEvents), DurationString(window)>>

\* recordConfig(zone, maxEvents, window)
recordConfig(t, c, zone, maxEvents, window) ==
    /\ MayCall(t, c)
    /\ calls' = calls + 1
    /\ IF skip(c)
       THEN UNCHANGED config
       ELSE config' = Inc(config, configLabels(zone, maxEvents, window))
    /\ UNCHANGED <<metricsOnce, globalMetrics, allocated, registry,
                   declinedTotal, requestsTotal, processTime, keysTotal,
                   collectors, pc, returned>>

(* ----------------------------- specification --------------------------- *)

Next ==
    \/ \E t \in Threads, r \in Registries : registerMetrics(t, r)
    \/ \E t \in Threads : doSlow(t)
    \/ \E t \in Threads : onceBody(t)
    \/ \E t \in Threads : onceDefer(t)
    \/ \E c \in Collectors : disable(c)
    \/ \E t \in Threads, c \in Collectors, hasZone \in BOOLEAN :
          recordRequest(t, c, hasZone)
    \/ \E t \in Threads, c \in Collectors, zone \in Zones, key \in Keys :
          recordRequestPerKey(t, c, zone, key)
    \/ \E t \in Threads : recordRequestPerKeyDetail(t)
    \/ \E t \in Threads, c \in Collectors, zone \in Zones, key \in Keys :
          recordDeclinedRequest(t, c, zone, key)
    \/ \E t \in Threads : recordDeclinedRequestDetail(t)
    \/ \E t \in Threads, c \in Collectors, d \in ProcessTimes,
          hasZone \in BOOLEAN : recordProcessTime(t, c, d, hasZone)
    \/ \E t \in Threads, c \in Collectors, d \in ProcessTimes,
          zone \in Zones, key \in Keys :
          recordProcessTimePerKey(t, c, d, zone, key)
    \/ \E t \in Threads : recordProcessTimePerKeyDetail(t)
    \/ \E t \in Threads, c \in Collectors, zone \in Zones,
          count \in Counts : updateKeysCount(t, c, zone, count)
    \/ \E t \in Threads, c \in Collectors, zone \in Zones,
          zc \in ZoneConfigs : recordConfig(t, c, zone, zc[1], zc[2])

Spec == Init /\ [][Next]_vars

(* ------------------------------ properties ----------------------------- *)

\* collector c records nothing: switched off, or no instrument set yet
Off(c) == ~collectors[c].enabled \/ globalMetrics = Nil

\* a step in which goroutine t's registerMetrics call returns
RegisterReturns(t) ==
    \/ metricsOnce.done /\ \E r \in Registries : registerMetrics(t, r)
    \/ metricsOnce.done /\ doSlow(t)
    \/ pc[t].at = "deferOk" /\ onceDefer(t)

\* an initialization has panicked
Panicked == \E t \in Threads : pc[t].at \in {"deferPanic", "panicked"}

\* what each Registerer held before any registerMetrics call
PreRegistered(r) == IF r = "r2" THEN {FQName("requests_total")} ELSE {}

AllInstruments == {InstrumentNames[i] : i \in 1..Len(InstrumentNames)}

\* exactly one Registerer received the instruments, and received all five
RegisteredOnce ==
    \E r \in Registries :
        /\ registry[r] = PreRegistered(r) \cup AllInstruments
        /\ \A q \in Registries \ {r} : registry[q] = PreRegistered(q)

\* how often initializeMetrics has run or is running: the sets built, plus
\* the runs in progress or ended by a panic
InitRuns ==
    allocated
    + Cardinality({t \in Threads : pc[t].at \in {"f", "deferPanic", "panicked"}})

C2_AggregateOnceKeyByPolicy ==
    [][\A t \in Threads :
          /\ \A c \in Collectors, zone \in Zones, key \in Keys :
                (recordRequestPerKey(t, c, zone, key) /\ ~Off(c)) =>
                    Val(requestsTotal', <<zone, "">>)
                        = Val(requestsTotal, <<zone, "">>) + 1
          /\ recordRequestPerKeyDetail(t) =>
                /\ Val(requestsTotal', <<pc[t].zone, "">>)
                       = Val(requestsTotal, <<pc[t].zone, "">>)
                /\ Val(requestsTotal', <<pc[t].zone, pc[t].key>>)
                       = Val(requestsTotal, <<pc[t].zone, pc[t].key>>)
                         + (IF collectors[pc[t].mc].IncludeKey THEN 1 ELSE 0)
      ]_vars

RecordingCall(t, c) ==
    \/ \E hasZone \in BOOLEAN : recordRequest(t, c, hasZone)
    \/ \E zone \in Zones, key \in Keys : recordRequestPerKey(t, c, zone, key)
    \/ \E zone \in Zones, key \in Keys : recordDeclinedRequest(t, c, zone, key)
    \/ \E d \in ProcessTimes, hasZone \in BOOLEAN :
          recordProcessTime(t, c, d, hasZone)
    \/ \E d \in ProcessTimes, zone \in Zones, key \in Keys :
          recordProcessTimePerKey(t, c, d, zone, key)
    \/ \E zone \in Zones, count \in Counts : updateKeysCount(t, c, zone, count)
    \/ \E zone \in Zones, zc \in ZoneConfigs :
          recordConfig(t, c, zone, zc[1], zc[2])

\* C4: a call of any of the seven recording methods on a collector that is
\* switched off, or made while globalMetrics is nil, changes no series of
\* any instrument and returns at once (the goroutine is idle again, nothing
\* of the bootstrap state has moved)
C4_NoOpWhenOff ==
    [][\A t \in Threads, c \in Collectors :
          (Off(c) /\ RecordingCall(t, c)) =>
              /\ UNCHANGED vecs
              /\ UNCHANGED <<metricsOnce, globalMetrics, allocated, registry,
                             collectors>>
              /\ pc'[t] = Idle]_vars

\* C4 witness: with the instrument set in place and a collector switched
\* off, the calls made so far have left every instrument without series
C4_Witness ==
    /\ calls >= 1
    /\ globalMetrics # Nil
    /\ \A c \in Collectors : ~collectors[c].enabled
    /\ \A t \in Threads : pc[t].at = "idle"
    /\ vecs = <<EmptyVec, EmptyVec, EmptyVec, EmptyVec, EmptyVec>>

\* C5 as stated: no series of config_snapshot ever exceeds 1
C5_ConfigNeverAboveOne == \A lbl \in DOMAIN config : config[lbl] <= 1

\* the label values Go prints for the zone configurations
GoConfigLabels(zone, zc) ==
    CASE zc = <<2, 10000>> -> <<zone, "2", "10s">>
      [] zc = <<10, 10000>> -> <<zone, "10", "10s">>
      [] zc = <<2, 90000>> -> <<zone, "2", "1m30s">>

\* C6: a recordConfig(z, m, w) call on a recording collector raises the
\* series of exactly that configuration by 1 (from 0 to 1 the first time),
\* leaves the series of every other configuration of every zone as it was,
\* creates no other series and touches no other instrument
C6_ConfigAppendOnly ==
    [][\A t \in Threads, c \in Collectors, zone \in Zones, zc \in ZoneConfigs :
          (recordConfig(t, c, zone, zc[1], zc[2]) /\ ~Off(c)) =>
              /\ Val(config', GoConfigLabels(zone, zc))
                     = Val(config, GoConfigLabels(zone, zc)) + 1
              /\ \A z2 \in Zones, zc2 \in ZoneConfigs :
                    <<z2, zc2>> # <<zone, zc>> =>
                        /\ GoConfigLabels(z2, zc2) # GoConfigLabels(zone, zc)
                        /\ Val(config', GoConfigLabels(z2, zc2))
                               = Val(config, GoConfigLabels(z2, zc2))
              /\ DOMAIN config' =
                     DOMAIN config \cup {GoConfigLabels(zone, zc)}
              /\ UNCHANGED <<declinedTotal, requestsTotal, processTime,
                             keysTotal>>]_vars

\* C6 witness: zone "z" was recorded with window 10s and then with window
\* 1m30s: two series, each at 1
C6_Witness ==
    /\ Val(config, <<"z", "2", "10s">>) = 1
    /\ Val(config, <<"z", "2", "1m30s">>) = 1

\* C7: an updateKeysCount(z, n) call on a recording collector leaves
\* keys_total{z} at n and every other zone's series as it was, and no other
\* step changes the gauge: each series holds the count of the latest call
\* for its zone
C7_GaugeLastWriteWins ==
    [][/\ \A t \in Threads, c \in Collectors, zone \in Zones, n \in Counts :
             (updateKeysCount(t, c, zone, n) /\ ~Off(c)) =>
                 /\ Val(keysTotal', <<zone>>) = n
                 /\ DOMAIN keysTotal' = DOMAIN keysTotal \cup {<<zone>>}
                 /\ \A lbl \in DOMAIN keysTotal :
                       lbl # <<zone>> => keysTotal'[lbl] = keysTotal[lbl]
       /\ keysTotal' # keysTotal =>
             \E t \in Threads, c \in Collectors, zone \in Zones, n \in Counts :
                 updateKeysCount(t, c, zone, n) /\ ~Off(c)]_vars

\* C7 witness: both zones' gauges were set, to different counts, in two calls
C7_Witness ==
    /\ calls = 2
    /\ Val(keysTotal, <<"z">>) = 3
    /\ Val(keysTotal, <<"true">>) = 5

\* C8 as stated: a recordRequest call changes the aggregate
\* requests_total{z,""} of no zone z
C8_RequestLeavesZoneAggregates ==
    [][\A t \in Threads, c \in Collectors, hasZone \in BOOLEAN :
          recordRequest(t, c, hasZone) =>
              \A zone \in Zones :
                  Val(requestsTotal', <<zone, "">>)
                      = Val(requestsTotal, <<zone, "">>)]_vars

RECURSIVE SeriesSum(_, _)
\* the sum of the series lbls of a counter vector
SeriesSum(vec, lbls) ==
    IF lbls = {} THEN 0
    ELSE LET lbl == CHOOSE l \in lbls : TRUE
         IN  vec[lbl] + SeriesSum(vec, lbls \ {lbl})

\* the sum over the non-empty keys of a zone
PerKeySum(vec, zone) ==
    SeriesSum(vec, {lbl \in DOMAIN vec : lbl[1] = zone /\ lbl[2] # ""})

\* in a {zone,key} counter, each zone's per-key series add up to at most
\* its aggregate
AggregateCovers(vec) ==
    \A zone \in {lbl[1] : lbl \in DOMAIN vec} :
        PerKeySum(vec, zone) <= Val(vec, <<zone, "">>)

\* no series of a counter vector is dropped or lowered by a step
NeverDecreases(vec, vecAfter) ==
    \A lbl \in DOMAIN vec : lbl \in DOMAIN vecAfter /\ vecAfter[lbl] >= vec[lbl]

\* C9: in every state, also between the two writes of a call, the per-key
\* series of each zone add up to at most the zone's aggregate, in
\* requests_total and in declined_total; and no counter ever decreases
C9_AggregateFirst ==
    /\ [](AggregateCovers(requestsTotal) /\ AggregateCovers(declinedTotal))
    /\ [][/\ NeverDecreases(requestsTotal, requestsTotal')
          /\ NeverDecreases(declinedTotal, declinedTotal')
          /\ NeverDecreases(config, config')]_vars

\* C9 witness: two recordRequestPerKey calls for key "k" overlap: both
\* aggregate writes and one per-key write are done, one call is still
\* between its two writes
C9_Witness ==
    /\ Val(requestsTotal, <<"z", "">>) = 2
    /\ Val(requestsTotal, <<"z", "k">>) = 1
    /\ \E t \in Threads :
          /\ pc[t].at = "perKey"
          /\ pc[t].op = "recordRequestPerKey"
          /\ pc[t].key = "k"
          /\ collectors[pc[t].mc].IncludeKey

\* the initialization panicked and its deferred calls have run
InitAborted == \E t \in Threads : pc[t].at = "panicked"

\* C10: once an initialization has panicked out of metricsOnce.Do, the guard
\* is consumed and globalMetrics is nil, and from then on no step runs the
\* initialization again, changes the guard, globalMetrics or a registry, or
\* records anything
C10_FailedInitIsFinal ==
    /\ [](InitAborted => metricsOnce.done /\ globalMetrics = Nil)
    /\ [][InitAborted =>
             /\ UNCHANGED <<metricsOnce, globalMetrics, allocated, registry>>
             /\ UNCHANGED vecs
             /\ \A t \in Threads : pc'[t].at \notin {"f", "perKey"}]_vars

\* C10 witness: after the panic a later registerMetrics call has returned
\* nil and recording calls have been made, with globalMetrics still nil
C10_Witness ==
    /\ InitAborted
    /\ returned = {"nil"}
    /\ calls = MaxCalls
    /\ globalMetrics = Nil

====
